---- MODULE Spec2Model ----
(***************************************************************************)
(* Model of the gateway's core: the session liveness tracker (/heartbeat,  *)
(* /check over the lastSeen Map) and the HitPay webhook authenticator, as  *)
(* written in src/index.js (raw-body signature) and in its sibling         *)
(* revision src/unnamed/part_000 (sorted-fields signature).                *)
(*                                                                         *)
(* JavaScript values are records that carry their typeof in the field     *)
(* "type"; strings are sequences of UTF-16 code units ("a" is <<97>>).     *)
(***************************************************************************)
EXTENDS Integers, Sequences, FiniteSets, Bags, TLC

VARIABLES
    pc,         \* "boot" before the module body ran, then "listening" or "exited"
    build,      \* which revision runs: "index.js" or "part_000"
    env,        \* process.env, the four variables the module reads
    SALT,       \* the const HITPAY_WEBHOOK_SALT bound at line 16-21
    now,        \* Date.now(), relative to process start
    ticks,      \* how many times the clock was advanced (bounds the run)
    lastSeen,   \* the Map lastSeen, as its set of <<key, value>> entries
    inflight,   \* the bag of /heartbeat and /check requests sent and not yet handled
    resp,       \* the response to the last handled /heartbeat or /check
    fired,      \* history: per id, trigger=true responses since its last heartbeat
    hbAt,       \* history: per id, Date.now() of its last accepted heartbeat
    wresp       \* the /hitpay/webhook request being answered, with its response

vars == <<pc, build, env, SALT, now, ticks, lastSeen, inflight, resp, fired, hbAt, wresp>>

-----------------------------------------------------------------------------
(* Bounds of the model *)

MaxTicks == 3
MaxInflight == 2
MaxFields == 2

(* Program constants *)

TIMEOUT == 3500

-----------------------------------------------------------------------------
(* JavaScript values *)

Undefined == [type |-> "undefined", s |-> <<>>]
Str(x) == [type |-> "string", s |-> x]
\* the number 7, and the array ['a','a'] of a repeated query parameter
NumberValue == [type |-> "number", s |-> <<55>>]
ArrayValue == [type |-> "object", s |-> <<97, 44, 97>>]

\* !v for a value that is undefined or a string
Falsy(v) == v.type = "undefined" \/ (v.type = "string" /\ v.s = <<>>)

EnvNames == {"SHOPIFY_STORE", "ACCESS_TOKEN", "HITPAY_API_KEY", "HITPAY_WEBHOOK_SALT"}
\* unset, set to "", set to "s"
EnvValues == {Undefined, Str(<<>>), Str(<<115>>)}

\* The string session ids the clients use; "" is a string too.
Ids == {<<>>, <<97>>}

\* req.body.sessionId of POST /heartbeat (any JSON value or absent)
HeartbeatInputs == {Undefined, NumberValue} \cup {Str(i) : i \in Ids}
\* req.query.sessionId of GET /check (absent, a string, or an array when repeated)
CheckInputs == {Undefined, ArrayValue} \cup {Str(i) : i \in Ids}

\* The amounts by which the clock advances between two requests.
Deltas == {1, TIMEOUT}

-----------------------------------------------------------------------------
(* The Map lastSeen *)

MapHas(m, k) == \E e \in m : e[1] = k
MapGet(m, k) == (CHOOSE e \in m : e[1] = k)[2]
\* a set() that keeps the value of a key it already holds
MapSetIfAbsent(m, k, v) == IF \E e \in m : e[1] = k THEN m ELSE m \cup {<<k, v>>}
\* a set() that replaces the whole map by the one entry
MapSetAlone(m, k, v) == {<<k, v>>}
MapSet(m, k, v) == {e \in m : e[1] # k} \cup {<<k, v>>}
\* a delete() whose filter is inverted: it keeps k and drops the other keys
MapDeleteOthers(m, k) == {e \in m : e[1] = k}
\* a delete() that removes nothing
MapDeleteNothing(m, k) == m
MapDelete(m, k) == {e \in m : e[1] # k}

-----------------------------------------------------------------------------
(* Startup *)

NoResp == [kind |-> "none", sessionId |-> Undefined, status |-> 0, ok |-> FALSE,
           trigger |-> FALSE, at |-> 0, raced |-> FALSE, prior |-> "none"]
\* No signature comparison was made.
NoCompare == [done |-> FALSE, expected |-> Undefined, received |-> Undefined, steps |-> 0]

NoWResp == [handled |-> FALSE, ct |-> "none", wire |-> [enc |-> "none", fields |-> <<>>],
            header |-> Undefined, status |-> 0, reached |-> FALSE, body |-> Undefined,
            hashed |-> Undefined, processed |-> FALSE, key |-> Undefined,
            cmp |-> NoCompare]

Init ==
    /\ pc = "boot"
    /\ build \in {"index.js", "part_000"}
    /\ env \in [EnvNames -> EnvValues]
    /\ SALT = Undefined
    /\ now = 0
    /\ ticks = 0
    /\ lastSeen = {}
    /\ inflight = EmptyBag
    /\ resp = NoResp
    /\ fired = [i \in Ids |-> 0]
    /\ hbAt = [i \in Ids |-> -1]
    /\ wresp = NoWResp

\* the fail-fast test with the webhook secret left out
MissingVarNoSalt(e) ==
    \/ Falsy(e["SHOPIFY_STORE"])
    \/ Falsy(e["ACCESS_TOKEN"])
    \/ Falsy(e["HITPAY_API_KEY"])
\* The fail-fast test of line 24.
MissingVar(e) ==
    \/ Falsy(e["SHOPIFY_STORE"])
    \/ Falsy(e["ACCESS_TOKEN"])
    \/ Falsy(e["HITPAY_API_KEY"])
    \/ Falsy(e["HITPAY_WEBHOOK_SALT"])

\* Evaluation of the module body: destructure process.env, exit(1) when a
\* variable is missing, else register the routes and listen.
Startup ==
    /\ pc = "boot"
    /\ SALT' = env["HITPAY_WEBHOOK_SALT"]
    /\ pc' = IF MissingVar(env) THEN "exited" ELSE "listening"
    /\ UNCHANGED <<build, env, now, ticks, lastSeen, inflight, resp, fired, hbAt, wresp>>

-----------------------------------------------------------------------------
(* The liveness tracker *)

\* Wall-clock time passes: Date.now() read by a later handler is larger by
\* d.  A handler reads it once, so it is constant within a handler.
Tick(d) ==
    /\ pc = "listening"
    /\ ticks < MaxTicks
    /\ now' = now + d
    /\ ticks' = ticks + 1
    /\ UNCHANGED <<pc, build, env, SALT, lastSeen, inflight, resp, fired, hbAt, wresp>>

\* A client sends a request; the requests in flight are handled one at a
\* time, each handler running to completion, in any order.
Request(kind, sid) == [kind |-> kind, sessionId |-> sid, raced |-> FALSE]

Arrive(r) ==
    /\ pc = "listening"
    /\ BagCardinality(inflight) < MaxInflight
    /\ inflight' = inflight (+) SetToBag({r})
    /\ UNCHANGED <<pc, build, env, SALT, now, ticks, lastSeen, resp, fired, hbAt, wresp>>

Remove(q, r) == q (-) SetToBag({r})

\* History only: the /check requests for id that are in flight when a
\* /check for id answers trigger=true raced with it (flag TRUE); a later
\* heartbeat for id starts a new silent period (flag FALSE).
Marked(r, id, flag) ==
    IF r.kind = "check" /\ r.sessionId = Str(id) THEN [r EXCEPT !.raced = flag] ELSE r

Mark(q, id, flag) ==
    LET olds(x) == {r \in BagToSet(q) : Marked(r, id, flag) = x}
        count(x) == IF olds(x) = {x} THEN CopiesIn(x, q)
                    ELSE CopiesIn([x EXCEPT !.raced = TRUE], q)
                         + CopiesIn([x EXCEPT !.raced = FALSE], q)
    IN [x \in {Marked(r, id, flag) : r \in BagToSet(q)} |-> count(x)]

\* What the tracker knew of id before a heartbeat (history only).
PriorState(id) ==
    IF MapHas(lastSeen, id)
    THEN IF now - MapGet(lastSeen, id) > TIMEOUT THEN "timedout" ELSE "alive"
    ELSE IF fired[id] > 0 THEN "reported" ELSE "untracked"

\* app.post('/heartbeat', ...)
HandleHeartbeat(r) ==
    /\ pc = "listening"
    /\ BagIn(r, inflight)
    /\ r.kind = "heartbeat"
    /\ LET sessionId == r.sessionId
           id == sessionId.s
       IN IF sessionId.type # "string"
          THEN /\ resp' = [NoResp EXCEPT !.kind = "heartbeat", !.sessionId = sessionId,
                                         !.status = 400, !.at = now]
               /\ inflight' = Remove(inflight, r)
               /\ UNCHANGED <<lastSeen, fired, hbAt>>
          ELSE /\ lastSeen' = MapSet(lastSeen, id, now)
               /\ resp' = [NoResp EXCEPT !.kind = "heartbeat", !.sessionId = sessionId,
                                         !.status = 200, !.ok = TRUE, !.at = now,
                                         !.prior = PriorState(id)]
               /\ inflight' = Mark(Remove(inflight, r), id, FALSE)
               /\ fired' = [fired EXCEPT ![id] = 0]
               /\ hbAt' = [hbAt EXCEPT ![id] = now]
    /\ UNCHANGED <<pc, build, env, SALT, now, ticks, wresp>>

\* the comparison written with >= instead of >
TimedOutInclusive(t, last) == (t - last) >= TIMEOUT
\* a comparison that never finds the window exceeded
TimedOutNever(t, last) == FALSE
\* (Date.now() - last) > 3500
TimedOut(t, last) == (t - last) > TIMEOUT

\* app.get('/check', ...)
HandleCheck(r) ==
    /\ pc = "listening"
    /\ BagIn(r, inflight)
    /\ r.kind = "check"
    /\ LET sessionId == r.sessionId
           id == sessionId.s
           base == [NoResp EXCEPT !.kind = "check", !.sessionId = sessionId,
                                  !.at = now, !.raced = r.raced]
       IN IF sessionId.type # "string"
          THEN /\ resp' = [base EXCEPT !.status = 400]
               /\ inflight' = Remove(inflight, r)
               /\ UNCHANGED <<lastSeen, fired>>
          ELSE IF ~MapHas(lastSeen, id)
          THEN /\ resp' = [base EXCEPT !.status = 200]
               /\ inflight' = Remove(inflight, r)
               /\ UNCHANGED <<lastSeen, fired>>
          ELSE IF TimedOut(now, MapGet(lastSeen, id))
          THEN /\ lastSeen' = MapDelete(lastSeen, id)
               /\ resp' = [base EXCEPT !.status = 200, !.trigger = TRUE]
               /\ inflight' = Mark(Remove(inflight, r), id, TRUE)
               /\ fired' = [fired EXCEPT ![id] = IF @ < 2 THEN @ + 1 ELSE @]
          ELSE /\ resp' = [base EXCEPT !.status = 200]
               /\ inflight' = Remove(inflight, r)
               /\ UNCHANGED <<lastSeen, fired>>
    /\ UNCHANGED <<pc, build, env, SALT, now, ticks, hbAt, wresp>>

\* /heartbeat and /check are the same text in both revisions (index.js
\* 300-330, part_000 250-281); their runs are explored for one of them.
InitTracker == Init /\ build = "index.js"

NextTracker ==
    \/ Startup
    \/ \E d \in Deltas : Tick(d)
    \/ \E sid \in HeartbeatInputs : Arrive(Request("heartbeat", sid))
    \/ \E sid \in CheckInputs : Arrive(Request("check", sid))
    \/ \E r \in BagToSet(inflight) : HandleHeartbeat(r)
    \/ \E r \in BagToSet(inflight) : HandleCheck(r)

SpecTracker == InitTracker /\ [][NextTracker]_vars

-----------------------------------------------------------------------------
(* The webhook authenticator: strings, objects, HMAC *)

\* The field named "hmac"
HMAC == <<104, 109, 97, 99>>
\* Field names "a", "ab", "b" and field values "1", "2"
Keys == {<<97>>, <<97, 98>>, <<98>>}
Values == {<<49>>, <<50>>}

\* An object is the sequence of its <<name, value>> properties in insertion
\* order, which is the order Object.keys() lists non-numeric names in.
Obj(fields) == [type |-> "object", s |-> fields]
Buffer(bytes) == [type |-> "buffer", s |-> bytes]

\* a < b for strings, by UTF-16 code units (the default order of sort())
LexLess(a, b) ==
    \E i \in 1..Len(b) :
        /\ i - 1 <= Len(a)
        /\ \A j \in 1..(i - 1) : a[j] = b[j]
        /\ (i = Len(a) + 1 \/ a[i] < b[i])

RECURSIVE Join(_)
\* array.join('')
Join(ss) == IF ss = <<>> THEN <<>> ELSE Head(ss) \o Join(Tail(ss))

RECURSIVE JoinWith(_, _)
\* array.join(sep)
JoinWith(ss, sep) ==
    IF ss = <<>> THEN <<>>
    ELSE IF Len(ss) = 1 THEN Head(ss)
    ELSE Head(ss) \o sep \o JoinWith(Tail(ss), sep)

\* Object.keys(o)
ObjectKeys(o) == [i \in DOMAIN o |-> o[i][1]]

\* o[k]
Prop(o, k) ==
    IF \E i \in DOMAIN o : o[i][1] = k
    THEN Str(o[CHOOSE i \in DOMAIN o : o[i][1] = k][2])
    ELSE Undefined

\* const { hmac, ...fields } = o: the properties other than k, in order
Rest(o, k) == SelectSeq(o, LAMBDA p : p[1] # k)

\* a sort() that leaves the array as it is
ArraySortNone(ks) == ks

RECURSIVE ArraySort(_)
\* array.sort() of an array of distinct strings
ArraySort(ks) ==
    IF ks = <<>> THEN <<>>
    ELSE LET rest == ArraySort(Tail(ks))
             n == Cardinality({i \in DOMAIN rest : LexLess(rest[i], Head(ks))})
         IN SubSeq(rest, 1, n) \o <<Head(ks)>> \o SubSeq(rest, n + 1, Len(rest))

\* Object.keys(fields).sort().map(k => k + fields[k]).join('')
SortedFields(fields) ==
    LET ks == ArraySort(ObjectKeys(fields))
    IN Join([i \in DOMAIN ks |-> ks[i] \o Prop(fields, ks[i]).s])

\* crypto.createHmac('sha256', key).update(msg).digest('hex'), as an ideal
\* MAC: a string that determines its key and its message (0 occurs in
\* neither).
HmacHex(key, msg) == <<0>> \o key \o <<0>> \o msg

\* a !== b for values that are undefined or strings
StrictNotEqual(a, b) == a.type # b.type \/ a.s # b.s

\* The code units a !== b reads: none when the types or the lengths differ,
\* else one after the other up to the first that differs.
FirstDifference(x, y) ==
    LET d == {i \in DOMAIN x : x[i] # y[i]}
    IN IF d = {} THEN Len(x) ELSE CHOOSE i \in d : \A j \in d : i <= j

StrictNotEqualSteps(a, b) ==
    IF a.type # "string" \/ b.type # "string" \/ Len(a.s) # Len(b.s) THEN 0
    ELSE FirstDifference(a.s, b.s)

\* The comparison as it ran: its operands and the code units it read.
Compared(a, b) == [done |-> TRUE, expected |-> a, received |-> b,
                   steps |-> StrictNotEqualSteps(a, b)]

-----------------------------------------------------------------------------
(* The webhook authenticator: requests and the middleware chain *)

\* Request bodies on the wire: none, text that is neither JSON nor a form,
\* a JSON object, a form; the bytes are the serialisation of the fields.
Pair(p, open, mid, close) == open \o p[1] \o mid \o p[2] \o close

Bytes(w) ==
    CASE w.enc = "json" ->
            <<123>> \o JoinWith([i \in DOMAIN w.fields |->
                                   Pair(w.fields[i], <<34>>, <<34, 58, 34>>, <<34>>)], <<44>>)
                    \o <<125>>
      [] w.enc = "form" ->
            JoinWith([i \in DOMAIN w.fields |-> Pair(w.fields[i], <<>>, <<61>>, <<>>)], <<38>>)
      [] w.enc = "text" -> <<120>>
      [] OTHER -> <<>>

\* typeis.hasBody(req)
HasBody(w) == w.enc # "none"

\* Of the bodies above, the JSON texts are those that start with '{'.
IsJsonText(bytes) == bytes # <<>> /\ bytes[1] = 123

\* querystring.parse: a form gives its fields; a text without '=' and '&'
\* gives one field named by the whole text, with value ''.
QueryParse(w) == IF w.enc = "form" THEN w.fields ELSE <<<<Bytes(w), <<>>>>>>

\* The request as the middleware sees it: req.body, req._body and the
\* error passed to next().
FreshReq == [body |-> Undefined, read |-> FALSE, err |-> 0]

DefaultBody(req) == IF req.body.type = "undefined" THEN [req EXCEPT !.body = Obj(<<>>)] ELSE req

\* bodyParser.json()
JsonParser(ct, w, req) ==
    IF req.err # 0 \/ req.read THEN req
    ELSE IF ~HasBody(w) \/ ct # "json" THEN DefaultBody(req)
    ELSE IF Bytes(w) = <<>>
         THEN [req EXCEPT !.body = Obj(<<>>), !.read = TRUE]
    ELSE IF IsJsonText(Bytes(w))
         THEN [req EXCEPT !.body = Obj(w.fields), !.read = TRUE]
         ELSE [req EXCEPT !.body = Obj(<<>>), !.read = TRUE, !.err = 400]

\* bodyParser.urlencoded({ extended: false }) and express.urlencoded(...)
UrlencodedParser(ct, w, req) ==
    IF req.err # 0 \/ req.read THEN req
    ELSE IF ~HasBody(w) \/ ct # "form" THEN DefaultBody(req)
    ELSE [req EXCEPT !.body = Obj(QueryParse(w)), !.read = TRUE]

\* express.raw({ type: '*/*' }): any request that has a Content-Type
RawParser(ct, w, req) ==
    IF req.err # 0 \/ req.read THEN req
    ELSE IF ~HasBody(w) \/ ct = "none" THEN DefaultBody(req)
    ELSE [req EXCEPT !.body = Buffer(Bytes(w)), !.read = TRUE]

\* app.use(bodyParser.json()); app.use(bodyParser.urlencoded(...))
GlobalMiddleware(ct, w) == UrlencodedParser(ct, w, JsonParser(ct, w, FreshReq))

\* The answer, with what the handler did: whether it was entered, the
\* req.body it saw, the value it gave to update(), and whether it went on
\* to use the payload (JSON.parse, the "Valid webhook payload" log), and
\* the comparison of the digest with the signature, if it came to it.
Answer(ct, w, h, req, status, reached, hashed, processed, cmp) ==
    [handled |-> TRUE, ct |-> ct, wire |-> w, header |-> h, status |-> status,
     reached |-> reached, body |-> req.body, hashed |-> hashed,
     processed |-> processed, key |-> SALT, cmp |-> cmp]

\* index.js: app.post('/hitpay/webhook', express.raw({ type: '*/*' }), ...)
WebhookRaw(ct, w, h) ==
    LET req == RawParser(ct, w, GlobalMiddleware(ct, w))
        sigHeader == IF Falsy(h) THEN Str(<<>>) ELSE h
        rawBody == req.body
        expected == Str(HmacHex(SALT.s, rawBody.s))
    IN IF req.err # 0
       THEN Answer(ct, w, h, req, req.err, FALSE, Undefined, FALSE, NoCompare)
       ELSE IF SALT.type # "string"
       THEN Answer(ct, w, h, req, 500, TRUE, Undefined, FALSE, NoCompare)
       ELSE IF rawBody.type # "buffer"
       THEN Answer(ct, w, h, req, 500, TRUE, rawBody, FALSE, NoCompare)
       ELSE IF StrictNotEqual(expected, sigHeader)
       THEN Answer(ct, w, h, req, 401, TRUE, rawBody, FALSE, Compared(expected, sigHeader))
       ELSE IF ~IsJsonText(rawBody.s)
       THEN Answer(ct, w, h, req, 500, TRUE, rawBody, TRUE, Compared(expected, sigHeader))
       ELSE Answer(ct, w, h, req, 200, TRUE, rawBody, TRUE, Compared(expected, sigHeader))

\* part_000: app.post('/hitpay/webhook', express.urlencoded({ extended: false }), ...)
WebhookSorted(ct, w, h) ==
    LET req == UrlencodedParser(ct, w, GlobalMiddleware(ct, w))
        hmac == Prop(req.body.s, HMAC)
        fields == Rest(req.body.s, HMAC)
        sorted == SortedFields(fields)
        digest == Str(HmacHex(SALT.s, sorted))
    IN IF req.err # 0
       THEN Answer(ct, w, h, req, req.err, FALSE, Undefined, FALSE, NoCompare)
       ELSE IF SALT.type # "string"
       THEN Answer(ct, w, h, req, 500, TRUE, Undefined, FALSE, NoCompare)
       ELSE IF StrictNotEqual(digest, hmac)
       THEN Answer(ct, w, h, req, 403, TRUE, Str(sorted), FALSE, Compared(digest, hmac))
       ELSE Answer(ct, w, h, req, 200, TRUE, Str(sorted), TRUE, Compared(digest, hmac))

\* The response is on its way; the handler is synchronous, so the next
\* webhook request is handled after this one has been answered.
WebhookSent ==
    /\ wresp.handled
    /\ wresp' = NoWResp
    /\ UNCHANGED <<pc, build, env, SALT, now, ticks, lastSeen, inflight, resp, fired, hbAt>>

-----------------------------------------------------------------------------
(* The senders of webhook requests *)

ContentTypes == {"json", "form", "text", "none"}

FieldLists ==
    UNION {{f \in [1..n -> Keys \X Values] :
                \A i, j \in 1..n : i # j => f[i][1] # f[j][1]} : n \in 0..MaxFields}

\* The canonical string of a field set as the sender computes it: name then
\* value of every field, names ascending.
Ascending(f, p) == \A i, j \in DOMAIN f : i < j => LexLess(f[p[i]][1], f[p[j]][1])

RefCanonical(f) ==
    LET p == CHOOSE q \in Permutations(DOMAIN f) : Ascending(f, q)
    IN Join([i \in DOMAIN f |-> f[p[i]][1] \o f[p[i]][2]])

\* The signatures a sender may claim for a message: the digest under the
\* secret, the digest under another key ("w"), the digest cut short, ''.
SigsOver(msg) ==
    {HmacHex(SALT.s, msg), HmacHex(<<119>>, msg),
     SubSeq(HmacHex(SALT.s, msg), 1, Len(msg) + 1), <<>>}

InsertAt(f, i, p) == SubSeq(f, 1, i - 1) \o <<p>> \o SubSeq(f, i, Len(f))

\* A field list, as it is or with an hmac field put anywhere in it.
SignedFieldLists ==
    FieldLists \cup
    UNION {{InsertAt(f, i, <<HMAC, sig>>) : i \in 1..(Len(f) + 1), sig \in SigsOver(RefCanonical(f))}
           : f \in FieldLists}

WireBodies ==
    {[enc |-> e, fields |-> <<>>] : e \in {"none", "text"}}
    \cup {[enc |-> e, fields |-> f] : e \in {"json", "form"}, f \in SignedFieldLists}

\* The x-hitpay-signature header: absent, or a signature over the body.
Headers(w) == {Undefined} \cup {Str(sig) : sig \in SigsOver(Bytes(w))}

\* The webhook requests: content type, body, signature header.
WebhookRequests ==
    UNION {{<<ct, w, h>> : h \in Headers(w)} : ct \in ContentTypes, w \in WireBodies}

\* POST /hitpay/webhook with one of the requests q, from the first
\* middleware to the response.
WebhookOf(requests) ==
    /\ pc = "listening"
    /\ ~wresp.handled
    /\ \E q \in requests :
          wresp' = IF build = "index.js" THEN WebhookRaw(q[1], q[2], q[3])
                                         ELSE WebhookSorted(q[1], q[2], q[3])
    /\ UNCHANGED <<pc, build, env, SALT, now, ticks, lastSeen, inflight, resp, fired, hbAt>>

Webhook == WebhookOf(WebhookRequests)

NextWebhook ==
    \/ Startup
    \/ Webhook
    \/ WebhookSent

SpecWebhook == Init /\ [][NextWebhook]_vars

-----------------------------------------------------------------------------
(* The tracker under polling *)

\* The clients send string ids only.
PollInputs == {Str(i) : i \in Ids}

PollRequests == {[kind |-> "check", sessionId |-> sid, raced |-> b] :
                    sid \in PollInputs, b \in BOOLEAN}

BeatRequests == {Request("heartbeat", sid) : sid \in PollInputs}

NextPolling ==
    \/ Startup
    \/ \E d \in Deltas : Tick(d)
    \/ \E sid \in PollInputs : Arrive(Request("heartbeat", sid))
    \/ \E sid \in PollInputs : Arrive(Request("check", sid))
    \/ \E r \in BagToSet(inflight) : HandleHeartbeat(r)
    \/ \E r \in BagToSet(inflight) : HandleCheck(r)

\* The process starts and the clock advances; the event loop runs the
\* handler of every request it has received (app.listen); the poller of
\* each id sends check(id) again and again, also past moments at which
\* other requests fill the queue.
FairPolling ==
    /\ WF_vars(Startup)
    /\ WF_vars(\E d \in Deltas : Tick(d))
    /\ \A r \in BeatRequests : WF_vars(HandleHeartbeat(r))
    /\ \A r \in PollRequests : WF_vars(HandleCheck(r))
    /\ \A sid \in PollInputs : SF_vars(Arrive(Request("check", sid)))

SpecPolling == InitTracker /\ [][NextPolling]_vars /\ FairPolling

-----------------------------------------------------------------------------
(* The server with all three routes *)

\* Two webhook requests, sent while sessions are tracked: a text body with
\* its signature, and the same body with no signature header.
TextBody == [enc |-> "text", fields |-> <<>>]

ProbeRequests ==
    {<<"text", TextBody, Str(HmacHex(SALT.s, Bytes(TextBody)))>>,
     <<"text", TextBody, Undefined>>}

\* The clock is read here in whole windows: an entry is overdue after two.
NextServer ==
    \/ Startup
    \/ Tick(TIMEOUT)
    \/ \E sid \in HeartbeatInputs : Arrive(Request("heartbeat", sid))
    \/ \E sid \in CheckInputs : Arrive(Request("check", sid))
    \/ \E r \in BagToSet(inflight) : HandleHeartbeat(r)
    \/ \E r \in BagToSet(inflight) : HandleCheck(r)
    \/ WebhookOf(ProbeRequests)
    \/ WebhookSent

SpecServer == Init /\ [][NextServer]_vars

-----------------------------------------------------------------------------
(* Properties of the liveness tracker *)

\* A handler ran in this step: it took its request out of the bag.
Handled == BagCardinality(inflight') < BagCardinality(inflight)

EntriesOf(m, id) == {e \in m : e[1] = id}
OtherEntries(m, id) == {e \in m : e[1] # id}

\* C1: between two consecutive heartbeats of an id at most one check of that
\* id answers trigger=true, however much time passes after the first.
C1_AtMostOneTrigger == \A id \in Ids : fired[id] <= 1

\* A check answered false after an earlier one reported the timeout, with no
\* heartbeat in between and the id still silent for longer than TIMEOUT.
C1_Witness ==
    /\ resp.kind = "check" /\ resp.status = 200 /\ ~resp.trigger
    /\ resp.sessionId.type = "string"
    /\ fired[resp.sessionId.s] = 1
    /\ hbAt[resp.sessionId.s] >= 0
    /\ resp.at - hbAt[resp.sessionId.s] > TIMEOUT + 1

\* C2: check(id) with a string id answers trigger=true exactly when the
\* registry holds an entry of id with now - lastSeenAt > 3500, and false
\* when there is no entry or now - lastSeenAt <= 3500.
C2_TriggerIff ==
    [][(Handled /\ resp'.kind = "check" /\ resp'.sessionId.type = "string")
        => /\ resp'.status = 200
           /\ resp'.trigger =
                (\E e \in lastSeen : e[1] = resp'.sessionId.s /\ now - e[2] > TIMEOUT)]_vars

\* A check made exactly TIMEOUT ms after the heartbeat answered false.
C2_Witness ==
    /\ resp.kind = "check" /\ resp.status = 200 /\ ~resp.trigger
    /\ resp.at = now
    /\ \E e \in lastSeen : e[1] = resp.sessionId.s /\ now - e[2] = TIMEOUT

\* C3: heartbeat(id) with a string id, whatever the registry held of id,
\* answers ok=true and leaves exactly one entry of id, with lastSeenAt = now,
\* and every other entry as it was; a check(id) made within TIMEOUT ms of the
\* last heartbeat(id) answers trigger=false.
C3_HeartbeatUpserts ==
    [][/\ (Handled /\ resp'.kind = "heartbeat" /\ resp'.sessionId.type = "string")
           => /\ resp'.status = 200 /\ resp'.ok
              /\ EntriesOf(lastSeen', resp'.sessionId.s) = {<<resp'.sessionId.s, now>>}
              /\ OtherEntries(lastSeen', resp'.sessionId.s)
                    = OtherEntries(lastSeen, resp'.sessionId.s)
       /\ (Handled /\ resp'.kind = "check" /\ resp'.sessionId.type = "string"
             /\ hbAt[resp'.sessionId.s] >= 0
             /\ now - hbAt[resp'.sessionId.s] <= TIMEOUT)
           => ~resp'.trigger]_vars

\* A heartbeat arrived right after the timeout of its id had been reported,
\* was acknowledged, and the other id's entry is still in the registry.
C3_Witness ==
    /\ resp.kind = "heartbeat" /\ resp.ok /\ resp.prior = "reported"
    /\ <<resp.sessionId.s, resp.at>> \in lastSeen
    /\ OtherEntries(lastSeen, resp.sessionId.s) # {}

\* C8: heartbeat and check with a sessionId that is missing, not a string or
\* the empty string answer 400 and leave the registry unchanged, and no
\* entry is ever created under the empty-string id.
C8_EmptyIdRejected ==
    [][/\ (Handled /\ (resp'.sessionId.type # "string" \/ resp'.sessionId.s = <<>>))
           => (resp'.status = 400 /\ lastSeen' = lastSeen)
       /\ ~MapHas(lastSeen', <<>>)]_vars

\* C10: a check that was in flight together with a check of the same id
\* that answered trigger=true, with no heartbeat of the id handled since,
\* answers trigger=false: the two never both report the silent period.
C10_NoDoubleTrigger == (resp.kind = "check" /\ resp.raced) => ~resp.trigger

\* Two checks of one timed-out id were in flight together and both were
\* handled: the second one, here, answered false.
C10_Witness ==
    /\ resp.kind = "check" /\ resp.raced /\ resp.status = 200
    /\ fired[resp.sessionId.s] = 1

-----------------------------------------------------------------------------
(* Properties of the webhook authenticator *)

\* The field set of the request that wresp answers, as its content type
\* says to decode it; a body that cannot be decoded carries no fields.
RequestFields ==
    CASE wresp.ct = "json" /\ IsJsonText(Bytes(wresp.wire)) -> wresp.wire.fields
      [] wresp.ct = "form" /\ HasBody(wresp.wire) -> QueryParse(wresp.wire)
      [] OTHER -> <<>>

\* What the specification calls the claimed signature and the canonical
\* representation of that request: the signature header and the body bytes
\* (raw-body policy, index.js), the hmac field and the other fields sorted
\* by name (sorted-fields policy, part_000).
ClaimedSignature ==
    IF build = "index.js" THEN wresp.header ELSE Prop(RequestFields, HMAC)

CanonicalRepresentation ==
    IF build = "index.js" THEN Bytes(wresp.wire)
    ELSE RefCanonical(Rest(RequestFields, HMAC))

ExpectedDigest == HmacHex(SALT.s, CanonicalRepresentation)

SignatureMatches == ClaimedSignature = Str(ExpectedDigest)

AuthFailure == IF build = "index.js" THEN 401 ELSE 403

\* C4: the webhook endpoint answers 200 exactly when the claimed signature
\* equals the hex HMAC-SHA256 of the canonical representation under the
\* secret; every other request is answered 401 (raw body) or 403 (sorted
\* fields) and its payload is neither parsed nor processed by the handler.
C4_VerifiedIffMatch ==
    wresp.handled =>
        /\ (wresp.status = 200) = SignatureMatches
        /\ ~SignatureMatches => (wresp.status = AuthFailure /\ ~wresp.processed)

\* C5: under the raw-body policy the bytes that are hashed are the request
\* body as received, for every content type: no earlier body parser has
\* consumed or replaced it.
C5_RawBodyHashed ==
    (wresp.handled /\ build = "index.js") =>
        wresp.hashed = Buffer(Bytes(wresp.wire))

\* The fields {b: "2", a: "1"} and the string "a1b2"
FieldsB2A1 == {<<<<98>>, <<50>>>>, <<<<97>>, <<49>>>>}
A1B2 == <<97, 49, 98, 50>>

Range(f) == {f[i] : i \in DOMAIN f}
Permuted(o, p) == [i \in DOMAIN o |-> o[p[i]]]
\* The object o with its hmac property, if any, set to sig
Resigned(o, sig) == [i \in DOMAIN o |-> IF o[i][1] = HMAC THEN <<HMAC, sig>> ELSE o[i]]

\* C6: under the sorted-fields policy the string that is hashed is name then
\* value of every field but hmac, names ascending; every reordering of the
\* fields and every value of hmac gives the same string, and {b:"2", a:"1"}
\* gives "a1b2".
C6_SortedCanonical ==
    (wresp.handled /\ build = "part_000" /\ wresp.reached /\ wresp.key.type = "string") =>
        LET body == wresp.body.s
        IN /\ wresp.hashed = Str(RefCanonical(Rest(body, HMAC)))
           /\ \A p \in Permutations(DOMAIN body) :
                Str(SortedFields(Rest(Permuted(body, p), HMAC))) = wresp.hashed
           /\ \A sig \in SigsOver(wresp.hashed.s) :
                Str(SortedFields(Rest(Resigned(body, sig), HMAC))) = wresp.hashed
           /\ Range(Rest(body, HMAC)) = FieldsB2A1 => wresp.hashed = Str(A1B2)

\* A form that lists b before a, with an hmac field in it, was hashed as "a1b2".
C6_Witness ==
    /\ wresp.handled /\ build = "part_000" /\ wresp.reached
    /\ wresp.body.type = "object"
    /\ Len(wresp.body.s) = 3
    /\ wresp.body.s[1] = <<<<98>>, <<50>>>>
    /\ wresp.body.s[3] = <<<<97>>, <<49>>>>
    /\ wresp.hashed = Str(A1B2)
    /\ wresp.status = 200

\* A signature that is missing, empty or of another length than the digest.
Malformed(sig) == sig.type # "string" \/ Len(sig.s) # Len(ExpectedDigest)

\* C7: a webhook request whose signature is missing, empty or of another
\* length than the digest is answered 401/403, never 5xx, whatever its body
\* and content type.
C7_MalformedRejected ==
    (wresp.handled /\ Malformed(ClaimedSignature)) => wresp.status = AuthFailure

SaltEnv == env["HITPAY_WEBHOOK_SALT"]

\* C9: with the webhook secret missing or empty the process exits before it
\* listens; whenever a webhook request is handled the secret is a non-empty
\* string, the one the environment held at startup.
C9_SecretPresent ==
    /\ (Falsy(SaltEnv) /\ pc # "boot") => pc = "exited"
    /\ pc = "exited" => ~wresp.handled
    /\ wresp.handled => (~Falsy(wresp.key) /\ wresp.key = SaltEnv /\ SALT = SaltEnv)

\* A webhook request was verified under the secret of the environment.
C9_Witness == wresp.handled /\ wresp.status = 200 /\ wresp.key = SaltEnv

\* The signatures of the length of sig that a sender may claim against
\* digest: the digest itself, and the digest with one code unit replaced.
SameLengthSignatures(sig, digest) ==
    {s \in {digest} \cup {[digest EXCEPT ![i] = 1] : i \in DOMAIN digest} :
        Len(s) = Len(sig)}

\* C11: the comparison of the digest with the claimed signature reads the
\* same number of code units for every claimed signature of one length,
\* wherever the first differing character is.
C11_ConstantTimeCompare ==
    (wresp.handled /\ wresp.cmp.done /\ wresp.cmp.received.type = "string") =>
        \A other \in SameLengthSignatures(wresp.cmp.received.s, wresp.cmp.expected.s) :
            StrictNotEqualSteps(wresp.cmp.expected, Str(other)) = wresp.cmp.steps

-----------------------------------------------------------------------------
(* Properties of the whole server *)

Tracked(m) == {e[1] : e \in m}

\* C12: an entry leaves the registry only in a check(id) that answers
\* trigger=true, which removes the entry of id and no other; a heartbeat
\* leaves the entries of the other ids as they were; a check that answers
\* false, a request answered 400, a webhook request and every step that is
\* not a tracker handler leave the registry as it was.
C12_OnlyTriggerRemoves ==
    [][/\ (Tracked(lastSeen) \ Tracked(lastSeen') # {})
           => /\ Handled /\ resp'.kind = "check" /\ resp'.trigger
              /\ Tracked(lastSeen) \ Tracked(lastSeen') = {resp'.sessionId.s}
       /\ (Handled /\ resp'.sessionId.type = "string")
           => OtherEntries(lastSeen', resp'.sessionId.s)
                = OtherEntries(lastSeen, resp'.sessionId.s)
       /\ (Handled /\ (resp'.status = 400 \/ (resp'.kind = "check" /\ ~resp'.trigger)))
           => lastSeen' = lastSeen
       /\ wresp' # wresp => lastSeen' = lastSeen
       /\ ~Handled => lastSeen' = lastSeen]_vars

\* A check removed the entry of its id and left the entry of the other id,
\* which is as long overdue, in the registry; a webhook request has been
\* answered since and the entry is still there.
C12_Witness ==
    /\ resp.kind = "check" /\ resp.trigger
    /\ ~MapHas(lastSeen, resp.sessionId.s)
    /\ \E e \in lastSeen : e[1] # resp.sessionId.s /\ resp.at - e[2] > TIMEOUT
    /\ wresp.handled

-----------------------------------------------------------------------------
(* Progress of the liveness tracker *)

\* The last heartbeat of id is more than TIMEOUT ms old and no check has
\* reported it yet.
Silent(id) == hbAt[id] >= 0 /\ now - hbAt[id] > TIMEOUT /\ fired[id] = 0

\* C13: a check(id) made more than 3500 ms after the last heartbeat(id),
\* none having reported that silence before, answers trigger=true, and no
\* other check(id) does; and as long as check(id) is polled, a silence of id
\* does not last: it is reported, unless a new heartbeat(id) ends it.
C13_SilenceReported ==
    /\ [][(Handled /\ resp'.kind = "check" /\ resp'.sessionId.type = "string")
            => (resp'.trigger = Silent(resp'.sessionId.s))]_vars
    /\ \A id \in Ids : Silent(id) ~> (fired[id] = 1 \/ hbAt[id] = now)

\* The check made 1 ms after the window of the last heartbeat had passed
\* reported the silence.
C13_Witness ==
    /\ resp.kind = "check" /\ resp.trigger
    /\ fired[resp.sessionId.s] = 1
    /\ resp.at - hbAt[resp.sessionId.s] = TIMEOUT + 1

====
